---- MODULE Spec2Model ----
(***************************************************************************)
(* Model of the Opus JNI binding of open-intercom                         *)
(* (android/app/src/main/jni/opus_jni.c).                                  *)
(*                                                                         *)
(* The binding hands raw native pointers to the Java caller as handles    *)
(* (jlong).  The model keeps the native heap as a map from pointer values *)
(* to codec states, one action per JNI entry point, and a record of the   *)
(* last completed call (what was passed, which libopus routines the       *)
(* handler invoked, on what kind of memory, and what it returned).        *)
(*                                                                         *)
(* libopus itself is the environment: its routines are modelled by their  *)
(* documented behaviour on valid state; on memory that is not a live      *)
(* state of the expected type the behaviour is undefined and the model    *)
(* takes every outcome the build can produce (a crash, or a return of a   *)
(* garbage value).                                                         *)
(***************************************************************************)
EXTENDS Integers, Sequences, FiniteSets, TLC

(***************************************************************************)
(* Bounds of the model.                                                    *)
(***************************************************************************)
\* Native addresses the allocator can hand out are 1..MaxPtr.
MaxPtr == 2

(***************************************************************************)
(* Constants of the program and of opus.h.                                 *)
(***************************************************************************)
NULL == 0
OPUS_OK == 0
OPUS_BAD_ARG == -1
OPUS_BUFFER_TOO_SMALL == -2
OPUS_INVALID_PACKET == -4
OPUS_ALLOC_FAIL == -7
OPUS_AUTO == -1000
OPUS_BITRATE_MAX == -1
OPUS_SIGNAL_VOICE == 3001
OPUS_SIGNAL_MUSIC == 3002
\* OPUS_SET_VBR(1), OPUS_SET_COMPLEXITY(10) in createEncoder
VBR_ON == 1
COMPLEXITY_MAX == 10
\* the decode_fec argument the binding passes to opus_decode
DECODE_FEC == 0

Ptr == 0..MaxPtr

(***************************************************************************)
(* Inputs the caller may pass (small sets that reach each case).           *)
(***************************************************************************)
\* 8000 is a rate libopus supports, 11025 is one it rejects.
SampleRates == {8000, 11025}
\* mono and stereo, the channel counts libopus supports
ChannelCounts == {1, 2}
\* <<sampleRate, channels>> of createEncoder / createDecoder
CreateInputs == {<<8000, 1>>, <<8000, 2>>, <<11025, 1>>}
\* <<pcm.length, frameSize, opus.length>> of encode.  160 is 20 ms at 8 kHz and
\* 90 is no frame size of the codec; pcm holds one mono or one stereo frame
\* of 160; the packet buffer holds 3 bytes or none.
EncodeInputs == {<<160, 160, 3>>, <<320, 160, 3>>, <<160, 90, 3>>, <<160, 160, 0>>}
\* <<opus.length, pcm.length, frameSize>> of decode.  An empty packet asks
\* for concealment; 90 is no multiple of 2.5 ms.
DecodeInputs ==
    {<<0, 160, 160>>, <<0, 320, 160>>, <<0, 320, 90>>, <<3, 160, 160>>,
     <<3, 320, 160>>}
\* arguments of setBitrate
Bitrates == {16000, 400}

(***************************************************************************)
(* Native codec state.                                                     *)
(***************************************************************************)
FreeSlot ==
    [kind |-> "free", Fs |-> 0, channels |-> 0, vbr |-> 0, complexity |-> 0,
     signal |-> 0, bitrate |-> 0]

\* What opus_encoder_create leaves in a fresh encoder before any ctl: the
\* tunables hold library defaults the binding does not control.
FreshEncoders(Fs, channels) ==
    { [kind |-> "enc", Fs |-> Fs, channels |-> channels, vbr |-> v,
       complexity |-> c, signal |-> s, bitrate |-> OPUS_AUTO] :
         v \in {0, 1}, c \in {9}, s \in {OPUS_AUTO} }

FreshDecoder(Fs, channels) ==
    [kind |-> "dec", Fs |-> Fs, channels |-> channels, vbr |-> 0,
     complexity |-> 0, signal |-> 0, bitrate |-> 0]

SlotStates ==
    [kind : {"free", "enc", "dec"}, Fs : {0} \cup SampleRates,
     channels : {0} \cup ChannelCounts, vbr : {0, 1}, complexity : 0..10,
     signal : {0, OPUS_AUTO, OPUS_SIGNAL_VOICE, OPUS_SIGNAL_MUSIC},
     bitrate : Int]

VARIABLES
    heap,         \* native memory: pointer value -> codec state or free
    stale,        \* handle values a destroy has released and no create has
                  \* returned since
    outstanding,  \* handles the caller got from create and has not destroyed
    misuse,       \* some call so far ran a native routine outside its contract
    last          \* the last completed JNI call

vars == <<heap, stale, outstanding, misuse, last>>

Live(h) == heap[h].kind # "free"
LiveSet == {p \in Ptr : Live(p)}
FreePtrs == {p \in Ptr \ {NULL} : ~Live(p)}

TypeOK ==
    /\ heap \in [Ptr -> SlotStates]
    /\ stale \subseteq Ptr
    /\ outstanding \subseteq Ptr
    /\ misuse \in BOOLEAN

(***************************************************************************)
(* libopus, as the binding sees it.                                        *)
(***************************************************************************)
\* Sampling rates opus_encoder_create / opus_decoder_create accept.
ValidFs == {8000, 12000, 16000, 24000, 48000}

\* opus_encoder_create / opus_decoder_create: the (pointer, *error) pairs the
\* library can produce.  A failure returns NULL with *error set and leaves
\* nothing allocated; a success returns a fresh non-NULL address.
opus_create(Fs, channels) ==
    IF Fs \notin ValidFs \/ channels \notin {1, 2}
    THEN {[ptr |-> NULL, error |-> OPUS_BAD_ARG]}
    ELSE {[ptr |-> NULL, error |-> OPUS_ALLOC_FAIL]}
         \cup {[ptr |-> p, error |-> OPUS_OK] : p \in FreePtrs}

\* opus_encoder_ctl on a live encoder state.
opus_encoder_ctl(st, req, value) ==
    CASE req = "SET_VBR" -> [st EXCEPT !.vbr = IF value # 0 THEN 1 ELSE 0]
      [] req = "SET_COMPLEXITY" ->
           IF value \in 0..10 THEN [st EXCEPT !.complexity = value] ELSE st
      [] req = "SET_SIGNAL" ->
           IF value \in {OPUS_AUTO, OPUS_SIGNAL_VOICE, OPUS_SIGNAL_MUSIC}
           THEN [st EXCEPT !.signal = value] ELSE st
      [] req = "SET_BITRATE" ->
           IF value = OPUS_AUTO \/ value = OPUS_BITRATE_MAX
           THEN [st EXCEPT !.bitrate = value]
           ELSE IF value <= 0 THEN st
           ELSE IF value <= 500 THEN [st EXCEPT !.bitrate = 500]
           ELSE IF value > 300000 * st.channels
                THEN [st EXCEPT !.bitrate = 300000 * st.channels]
           ELSE [st EXCEPT !.bitrate = value]

\* Frame sizes opus_encode accepts at rate Fs (2.5 ... 120 ms).
EncFrameSizes(Fs) ==
    {Fs \div 400, Fs \div 200, Fs \div 100, Fs \div 50, Fs \div 25,
     3 * (Fs \div 50), 4 * (Fs \div 50), 5 * (Fs \div 50), 6 * (Fs \div 50)}

\* opus_encode on a live encoder: the values it can return.  A positive
\* result is the packet length, never above max_data_bytes.
opus_encode(st, frame_size, max_data_bytes) ==
    IF max_data_bytes <= 0 \/ frame_size \notin EncFrameSizes(st.Fs)
    THEN {OPUS_BAD_ARG}
    ELSE {1, max_data_bytes, OPUS_BUFFER_TOO_SMALL}

\* Samples per channel a received packet can hold at rate Fs (20 or 40 ms).
PacketSamples(Fs) == {Fs \div 50, Fs \div 25}

\* opus_decode on a live decoder: the values it can return (samples per
\* channel).  len = 0 asks for packet-loss concealment of frame_size samples.
opus_decode(st, len, frame_size, decode_fec) ==
    IF frame_size <= 0 THEN {OPUS_BAD_ARG}
    ELSE IF (decode_fec # 0 \/ len = 0) /\ frame_size % (st.Fs \div 400) # 0
    THEN {OPUS_BAD_ARG}
    ELSE IF len = 0 THEN {frame_size}
    ELSE {OPUS_INVALID_PACKET}
         \cup {IF n > frame_size THEN OPUS_BUFFER_TOO_SMALL ELSE n :
                 n \in PacketSamples(st.Fs)}

\* What a codec routine run on memory that is no live state of its type can
\* return when it does not crash.
GarbageRets == {OPUS_BAD_ARG, 1}

(***************************************************************************)
(* The JNI entry points.  Each handler is an operator giving what the C    *)
(* code decides (the native routines it invokes, the value it returns);   *)
(* the action of the same name runs those routines against the heap.      *)
(***************************************************************************)
\* op: the entry point; h: the handle passed; kind, Fs, nch: what the memory
\* at h held when the call began; calls: the libopus routines the handler
\* invoked, in order; nret: what opus_encode / opus_decode returned (or the
\* *error of a create); ret: the value returned to Java; wasStale: the handle
\* passed (or, for a create, the pointer obtained) was a released handle
\* value; liveBefore: live codec instances when the call began; others: the
\* native memory at every address but h when the call began; acquired,
\* released: the Java arrays whose elements the handler obtained from the
\* JVM and handed back to it, in order.
NoCall ==
    [op |-> "none", h |-> NULL, kind |-> "free", Fs |-> 0, nch |-> 0,
     sampleRate |-> 0,
     channels |-> 0, frameSize |-> 0, pcmLen |-> 0, opusLen |-> 0,
     bitrate |-> 0, calls |-> <<>>, nret |-> 0, ret |-> 0,
     wasStale |-> FALSE, liveBefore |-> 0, others |-> <<>>,
     acquired |-> <<>>, released |-> <<>>,
     outcome |-> "returned"]

Crashed == last.outcome = "crashed"

\* The native memory at every address other than h.
Others(h) == [p \in Ptr \ {h} |-> heap[p]]

\* Mutant of DefaultTuning: the OPUS_SET_COMPLEXITY request is left out.
DefaultTuningNoComplexity ==
    << <<"SET_VBR", VBR_ON>>, <<"SET_SIGNAL", OPUS_SIGNAL_VOICE>> >>

\* The three opus_encoder_ctl requests createEncoder issues on success.
DefaultTuning ==
    << <<"SET_VBR", VBR_ON>>, <<"SET_COMPLEXITY", COMPLEXITY_MAX>>,
       <<"SET_SIGNAL", OPUS_SIGNAL_VOICE>> >>

RECURSIVE ApplyCtls(_, _)
ApplyCtls(st, reqs) ==
    IF reqs = <<>> THEN st
    ELSE ApplyCtls(opus_encoder_ctl(st, Head(reqs)[1], Head(reqs)[2]), Tail(reqs))

CtlNames(reqs) == [i \in 1..Len(reqs) |-> "opus_encoder_ctl"]

\* Mutant of createEncoder: the test of error is inverted.
createEncoderInverted(r) ==
    IF r.error = OPUS_OK
    THEN [ret |-> 0, ctls |-> <<>>]
    ELSE [ret |-> r.ptr, ctls |-> DefaultTuning]

\* createEncoder after opus_encoder_create returned r = (ptr, error): the
\* ctl requests it goes on to issue and the jlong it returns.
createEncoder(r) ==
    IF r.error # OPUS_OK
    THEN [ret |-> 0, ctls |-> <<>>]
    ELSE [ret |-> r.ptr, ctls |-> DefaultTuning]

\* createDecoder after opus_decoder_create returned r = (ptr, error).
createDecoder(r) ==
    IF r.error # OPUS_OK THEN [ret |-> 0] ELSE [ret |-> r.ptr]

\* Mutant of encodeCalls: a second attempt follows the first.
encodeCallsRetry(encoderPtr) == <<"opus_encode", "opus_encode">>

\* The native routines encode invokes.
encodeCalls(encoderPtr) == <<"opus_encode">>

\* The Java arrays encode obtains with Get<Type>ArrayElements at entry.
encodeAcquire == <<"pcm", "opus">>

\* Mutant of encodeRelease: a native failure returns without releasing.
encodeReleaseOnSuccess(len) == IF len < 0 THEN <<>> ELSE <<"pcm", "opus">>

\* The Java arrays encode hands back with Release<Type>ArrayElements once
\* opus_encode has returned len.
encodeRelease(len) == <<"pcm", "opus">>

\* Mutant of encodeRet: a native error is reported as an empty packet.
encodeRetSwallowed(len) == IF len < 0 THEN 0 ELSE len

\* The jint encode returns given opus_encode's result len.
encodeRet(len) == len

\* The native routines decode invokes.
decodeCalls(decoderPtr) == <<"opus_decode">>

\* The Java arrays decode obtains with Get<Type>ArrayElements at entry.
decodeAcquire == <<"opus", "pcm">>

\* The Java arrays decode hands back with Release<Type>ArrayElements once
\* opus_decode has returned samples.
decodeRelease(samples) == <<"opus", "pcm">>

\* Mutant of decodeRet: a status (0 on success) is returned, not the count.
decodeRetStatus(samples) == IF samples < 0 THEN samples ELSE 0

\* The jint decode returns given opus_decode's result samples.
decodeRet(samples) == samples

\* Mutant of destroyEncoderCalls: the NULL test is inverted, so a real
\* encoder is never released.
destroyEncoderCallsInverted(encoderPtr) ==
    IF encoderPtr = NULL THEN <<"opus_encoder_destroy">> ELSE <<>>

\* destroyEncoder / destroyDecoder / setBitrate: guarded by `if (ptr)' only.
destroyEncoderCalls(encoderPtr) ==
    IF encoderPtr # NULL THEN <<"opus_encoder_destroy">> ELSE <<>>

destroyDecoderCalls(decoderPtr) ==
    IF decoderPtr # NULL THEN <<"opus_decoder_destroy">> ELSE <<>>

setBitrateCalls(encoderPtr) ==
    IF encoderPtr # NULL THEN <<"opus_encoder_ctl">> ELSE <<>>

\* Mutant of setBitrateTarget: the ctl goes to one encoder kept in a static
\* (the live instance at the lowest address), not to the one passed.
setBitrateTargetStatic(encoderPtr) ==
    IF encoderPtr = NULL \/ LiveSet = {} THEN encoderPtr
    ELSE CHOOSE p \in LiveSet : \A q \in LiveSet : p <= q

\* The state setBitrate issues its ctl on: the pointer cast from the handle.
setBitrateTarget(encoderPtr) == encoderPtr

Init ==
    /\ heap = [p \in Ptr |-> FreeSlot]
    /\ stale = {}
    /\ outstanding = {}
    /\ misuse = FALSE
    /\ last = NoCall

\* Java_com_openintercommobile_OpusCodec_createEncoder
CreateEncoder(sampleRate, channels) ==
    /\ ~Crashed
    /\ \E r \in opus_create(sampleRate, channels) :
       \E fresh \in FreshEncoders(sampleRate, channels) :
         LET j == createEncoder(r)
             allocated == r.ptr # NULL
             \* a ctl on the NULL the library returned dereferences it
             crash == j.ctls # <<>> /\ ~allocated
         IN  /\ heap' = IF allocated
                        THEN [heap EXCEPT ![r.ptr] = ApplyCtls(fresh, j.ctls)]
                        ELSE heap
             /\ outstanding' = IF j.ret # 0 /\ ~crash
                               THEN outstanding \cup {j.ret} ELSE outstanding
             /\ last' = [NoCall EXCEPT !.liveBefore = Cardinality(LiveSet),
                           !.op = "createEncoder",
                           !.sampleRate = sampleRate, !.channels = channels,
                           !.calls = <<"opus_encoder_create">> \o CtlNames(j.ctls),
                           !.nret = r.error, !.ret = j.ret,
                           !.wasStale = (allocated /\ r.ptr \in stale),
                           !.outcome = IF crash THEN "crashed" ELSE "returned"]
             /\ stale' = stale \ {r.ptr}
             /\ UNCHANGED misuse

\* Java_com_openintercommobile_OpusCodec_createDecoder
CreateDecoder(sampleRate, channels) ==
    /\ ~Crashed
    /\ \E r \in opus_create(sampleRate, channels) :
         LET j == createDecoder(r)
             allocated == r.ptr # NULL
         IN  /\ heap' = IF allocated
                        THEN [heap EXCEPT ![r.ptr] = FreshDecoder(sampleRate, channels)]
                        ELSE heap
             /\ outstanding' = IF j.ret # 0
                               THEN outstanding \cup {j.ret} ELSE outstanding
             /\ last' = [NoCall EXCEPT !.liveBefore = Cardinality(LiveSet),
                           !.op = "createDecoder",
                           !.sampleRate = sampleRate, !.channels = channels,
                           !.calls = <<"opus_decoder_create">>,
                           !.nret = r.error, !.ret = j.ret,
                           !.wasStale = (allocated /\ r.ptr \in stale)]
             /\ stale' = stale \ {r.ptr}
             /\ UNCHANGED misuse

\* Java_com_openintercommobile_OpusCodec_encode
Encode(encoderPtr, pcmLen, frameSize, opusLen) ==
    /\ ~Crashed
    /\ LET st == heap[encoderPtr]
           calls == encodeCalls(encoderPtr)
           invoked == calls # <<>>
           valid == st.kind = "enc"
           \* opus_encode reads frameSize * channels samples from pcm
           overread == /\ valid
                       /\ OPUS_BAD_ARG \notin opus_encode(st, frameSize, opusLen)
                       /\ pcmLen < frameSize * st.channels
           results ==
               IF ~invoked THEN {[nret |-> 0, outcome |-> "returned"]}
               ELSE IF encoderPtr = NULL THEN {[nret |-> 0, outcome |-> "crashed"]}
               ELSE IF ~valid
               THEN {[nret |-> 0, outcome |-> "crashed"]}
                    \cup {[nret |-> g, outcome |-> "returned"] : g \in GarbageRets}
               ELSE {[nret |-> n, outcome |-> "returned"] :
                       n \in opus_encode(st, frameSize, opusLen)}
                    \cup (IF overread THEN {[nret |-> 0, outcome |-> "crashed"]}
                          ELSE {})
       IN  \E res \in results :
             /\ last' = [NoCall EXCEPT !.liveBefore = Cardinality(LiveSet),
                           !.op = "encode", !.h = encoderPtr,
                           !.others = Others(encoderPtr),
                           !.kind = st.kind, !.Fs = st.Fs, !.nch = st.channels, !.frameSize = frameSize,
                           !.pcmLen = pcmLen, !.opusLen = opusLen,
                           !.calls = calls, !.nret = res.nret,
                           !.acquired = encodeAcquire,
                           !.released = IF res.outcome = "crashed" THEN <<>>
                                        ELSE encodeRelease(res.nret),
                           !.ret = IF res.outcome = "crashed" THEN 0
                                   ELSE encodeRet(res.nret),
                           !.outcome = res.outcome]
             /\ misuse' = (misuse \/ (invoked /\ (~valid \/ overread)))
             /\ UNCHANGED <<heap, stale, outstanding>>

\* Java_com_openintercommobile_OpusCodec_decode
Decode(decoderPtr, opusLen, pcmLen, frameSize) ==
    /\ ~Crashed
    /\ LET st == heap[decoderPtr]
           calls == decodeCalls(decoderPtr)
           invoked == calls # <<>>
           valid == st.kind = "dec"
           \* opus_decode writes n * channels samples into pcm
           Overrun(n) == n > 0 /\ n * st.channels > pcmLen
           results ==
               IF ~invoked THEN {[nret |-> 0, outcome |-> "returned"]}
               ELSE IF decoderPtr = NULL THEN {[nret |-> 0, outcome |-> "crashed"]}
               ELSE IF ~valid
               THEN {[nret |-> 0, outcome |-> "crashed"]}
                    \cup {[nret |-> g, outcome |-> "returned"] : g \in GarbageRets}
               ELSE LET rs == opus_decode(st, opusLen, frameSize, DECODE_FEC)
                    IN  {[nret |-> n, outcome |-> "returned"] : n \in rs}
                        \cup {[nret |-> n, outcome |-> "crashed"] :
                                n \in {m \in rs : Overrun(m)}}
       IN  \E res \in results :
             /\ last' = [NoCall EXCEPT !.liveBefore = Cardinality(LiveSet),
                           !.op = "decode", !.h = decoderPtr,
                           !.others = Others(decoderPtr),
                           !.kind = st.kind, !.Fs = st.Fs, !.nch = st.channels, !.frameSize = frameSize,
                           !.pcmLen = pcmLen, !.opusLen = opusLen,
                           !.calls = calls, !.nret = res.nret,
                           !.acquired = decodeAcquire,
                           !.released = IF res.outcome = "crashed" THEN <<>>
                                        ELSE decodeRelease(res.nret),
                           !.ret = IF res.outcome = "crashed" THEN 0
                                   ELSE decodeRet(res.nret),
                           !.outcome = res.outcome]
             /\ misuse' = (misuse \/ (invoked /\ (~valid \/ (valid /\ Overrun(res.nret)))))
             /\ UNCHANGED <<heap, stale, outstanding>>

\* opus_encoder_destroy / opus_decoder_destroy are both free(ptr): run on
\* pointer p by a destroy handler whose matching kind is `kind'.
Release(op, p, kind, calls) ==
    LET st == heap[p]
        invoked == calls # <<>>
        \* free of memory that is not allocated: double free or wild free
        bad == invoked /\ p # NULL /\ st.kind = "free"
        outcomes == IF bad THEN {"returned", "crashed"} ELSE {"returned"}
    IN  \E o \in outcomes :
             /\ last' = [NoCall EXCEPT !.liveBefore = Cardinality(LiveSet),
                           !.op = op, !.h = p, !.kind = st.kind,
                           !.others = Others(p),
                           !.Fs = st.Fs, !.nch = st.channels,
                           !.wasStale = (p \in stale), !.calls = calls,
                           !.outcome = o]
             /\ heap' = IF invoked /\ st.kind # "free"
                        THEN [heap EXCEPT ![p] = FreeSlot] ELSE heap
             /\ stale' = IF invoked /\ st.kind # "free"
                         THEN stale \cup {p} ELSE stale
             /\ outstanding' = outstanding \ {p}
             /\ misuse' = (misuse \/ bad \/ (invoked /\ st.kind \notin {"free", kind}))

\* Java_com_openintercommobile_OpusCodec_destroyEncoder
DestroyEncoder(encoderPtr) ==
    /\ ~Crashed
    /\ Release("destroyEncoder", encoderPtr, "enc", destroyEncoderCalls(encoderPtr))

\* Java_com_openintercommobile_OpusCodec_destroyDecoder
DestroyDecoder(decoderPtr) ==
    /\ ~Crashed
    /\ Release("destroyDecoder", decoderPtr, "dec", destroyDecoderCalls(decoderPtr))

\* Java_com_openintercommobile_OpusCodec_setBitrate
SetBitrate(encoderPtr, bitrate) ==
    /\ ~Crashed
    /\ LET st == heap[encoderPtr]
           target == setBitrateTarget(encoderPtr)
           calls == setBitrateCalls(encoderPtr)
           invoked == calls # <<>>
           valid == heap[target].kind = "enc"
           outcomes == IF ~invoked \/ valid THEN {"returned"}
                       ELSE IF encoderPtr = NULL THEN {"crashed"}
                       ELSE {"returned", "crashed"}
       IN  \E o \in outcomes :
             /\ last' = [NoCall EXCEPT !.liveBefore = Cardinality(LiveSet),
                           !.op = "setBitrate", !.h = encoderPtr,
                           !.others = Others(encoderPtr),
                           !.kind = st.kind, !.Fs = st.Fs, !.nch = st.channels, !.bitrate = bitrate, !.calls = calls,
                           !.outcome = o]
             /\ heap' = IF invoked /\ valid
                        THEN [heap EXCEPT ![target] =
                                opus_encoder_ctl(heap[target], "SET_BITRATE", bitrate)]
                        ELSE heap
             /\ misuse' = (misuse \/ (invoked /\ ~valid))
             /\ UNCHANGED <<stale, outstanding>>

Next ==
    \/ \E a \in CreateInputs : CreateEncoder(a[1], a[2])
    \/ \E a \in CreateInputs : CreateDecoder(a[1], a[2])
    \/ \E h \in Ptr, a \in EncodeInputs : Encode(h, a[1], a[2], a[3])
    \/ \E h \in Ptr, a \in DecodeInputs : Decode(h, a[1], a[2], a[3])
    \/ \E h \in Ptr : DestroyEncoder(h)
    \/ \E h \in Ptr : DestroyDecoder(h)
    \/ \E h \in Ptr, b \in Bitrates : SetBitrate(h, b)

Spec == Init /\ [][Next]_vars

(***************************************************************************)
(* Two threads.  The JNI functions take no lock, so while one thread (the  *)
(* audio thread) is inside opus_encode / opus_decode another thread (the  *)
(* control thread) can run destroyEncoder / destroyDecoder on the same    *)
(* handle.  Here `last' is the audio thread's call: its outcome is        *)
(* "running" from the moment the native routine was entered with the      *)
(* pointer until it returns.                                               *)
(***************************************************************************)
Running == last.outcome = "running"
Idle == ~Crashed /\ ~Running

\* encode up to the point where opus_encode holds the encoder pointer
EncodeBegin(encoderPtr, pcmLen, frameSize, opusLen) ==
    /\ Idle
    /\ LET st == heap[encoderPtr]
       IN  last' = [NoCall EXCEPT !.liveBefore = Cardinality(LiveSet),
                      !.op = "encode", !.h = encoderPtr,
                      !.others = Others(encoderPtr),
                      !.kind = st.kind, !.Fs = st.Fs, !.nch = st.channels,
                      !.frameSize = frameSize, !.pcmLen = pcmLen,
                      !.opusLen = opusLen, !.calls = encodeCalls(encoderPtr),
                      !.acquired = encodeAcquire,
                      !.outcome = "running"]
    /\ UNCHANGED <<heap, stale, outstanding, misuse>>

\* opus_encode finishes on whatever the memory at the pointer holds by now,
\* and encode returns
EncodeEnd ==
    /\ Running /\ last.op = "encode"
    /\ LET st == heap[last.h]
           valid == st.kind = "enc"
           overread == /\ valid
                       /\ OPUS_BAD_ARG \notin
                            opus_encode(st, last.frameSize, last.opusLen)
                       /\ last.pcmLen < last.frameSize * st.channels
           results ==
               IF last.h = NULL THEN {[nret |-> 0, outcome |-> "crashed"]}
               ELSE IF ~valid
               THEN {[nret |-> 0, outcome |-> "crashed"]}
                    \cup {[nret |-> g, outcome |-> "returned"] : g \in GarbageRets}
               ELSE {[nret |-> n, outcome |-> "returned"] :
                       n \in opus_encode(st, last.frameSize, last.opusLen)}
                    \cup (IF overread THEN {[nret |-> 0, outcome |-> "crashed"]}
                          ELSE {})
       IN  \E res \in results :
             /\ last' = [last EXCEPT !.nret = res.nret,
                           !.released = IF res.outcome = "crashed" THEN <<>>
                                        ELSE encodeRelease(res.nret),
                           !.ret = IF res.outcome = "crashed" THEN 0
                                   ELSE encodeRet(res.nret),
                           !.outcome = res.outcome]
             /\ misuse' = (misuse \/ ~valid \/ overread)
    /\ UNCHANGED <<heap, stale, outstanding>>

\* decode up to the point where opus_decode holds the decoder pointer
DecodeBegin(decoderPtr, opusLen, pcmLen, frameSize) ==
    /\ Idle
    /\ LET st == heap[decoderPtr]
       IN  last' = [NoCall EXCEPT !.liveBefore = Cardinality(LiveSet),
                      !.op = "decode", !.h = decoderPtr,
                      !.others = Others(decoderPtr),
                      !.kind = st.kind, !.Fs = st.Fs, !.nch = st.channels,
                      !.frameSize = frameSize, !.pcmLen = pcmLen,
                      !.opusLen = opusLen, !.calls = decodeCalls(decoderPtr),
                      !.acquired = decodeAcquire,
                      !.outcome = "running"]
    /\ UNCHANGED <<heap, stale, outstanding, misuse>>

\* opus_decode finishes on whatever the memory at the pointer holds by now,
\* and decode returns
DecodeEnd ==
    /\ Running /\ last.op = "decode"
    /\ LET st == heap[last.h]
           valid == st.kind = "dec"
           Overrun(n) == n > 0 /\ n * st.channels > last.pcmLen
           results ==
               IF last.h = NULL THEN {[nret |-> 0, outcome |-> "crashed"]}
               ELSE IF ~valid
               THEN {[nret |-> 0, outcome |-> "crashed"]}
                    \cup {[nret |-> g, outcome |-> "returned"] : g \in GarbageRets}
               ELSE LET rs == opus_decode(st, last.opusLen, last.frameSize,
                                          DECODE_FEC)
                    IN  {[nret |-> n, outcome |-> "returned"] : n \in rs}
                        \cup {[nret |-> n, outcome |-> "crashed"] :
                                n \in {m \in rs : Overrun(m)}}
       IN  \E res \in results :
             /\ last' = [last EXCEPT !.nret = res.nret,
                           !.released = IF res.outcome = "crashed" THEN <<>>
                                        ELSE decodeRelease(res.nret),
                           !.ret = IF res.outcome = "crashed" THEN 0
                                   ELSE decodeRet(res.nret),
                           !.outcome = res.outcome]
             /\ misuse' = (misuse \/ ~valid \/ Overrun(res.nret))
    /\ UNCHANGED <<heap, stale, outstanding>>

\* destroyEncoder / destroyDecoder run by the control thread on a live state
\* while the audio thread's call is in flight: nothing makes it wait.
RacingRelease(p, kind, calls) ==
    /\ Running
    /\ Live(p)
    /\ heap' = IF calls # <<>> THEN [heap EXCEPT ![p] = FreeSlot] ELSE heap
    /\ stale' = IF calls # <<>> THEN stale \cup {p} ELSE stale
    /\ outstanding' = outstanding \ {p}
    /\ misuse' = (misuse \/ (calls # <<>> /\ heap[p].kind # kind))
    /\ UNCHANGED last

RaceDestroyEncoder(encoderPtr) ==
    /\ ~Crashed
    /\ RacingRelease(encoderPtr, "enc", destroyEncoderCalls(encoderPtr))

RaceDestroyDecoder(decoderPtr) ==
    /\ ~Crashed
    /\ RacingRelease(decoderPtr, "dec", destroyDecoderCalls(decoderPtr))

\* The control thread's calls made while no audio call is in flight.
IdleCreateEncoder(sampleRate, channels) ==
    /\ Idle
    /\ CreateEncoder(sampleRate, channels)

IdleCreateDecoder(sampleRate, channels) ==
    /\ Idle
    /\ CreateDecoder(sampleRate, channels)

IdleDestroyEncoder(encoderPtr) ==
    /\ Idle
    /\ DestroyEncoder(encoderPtr)

IdleDestroyDecoder(decoderPtr) ==
    /\ Idle
    /\ DestroyDecoder(decoderPtr)

NextConc ==
    \/ \E a \in CreateInputs : IdleCreateEncoder(a[1], a[2])
    \/ \E a \in CreateInputs : IdleCreateDecoder(a[1], a[2])
    \/ \E h \in Ptr : IdleDestroyEncoder(h)
    \/ \E h \in Ptr : IdleDestroyDecoder(h)
    \/ \E h \in Ptr, a \in EncodeInputs : EncodeBegin(h, a[1], a[2], a[3])
    \/ EncodeEnd
    \/ \E h \in Ptr, a \in DecodeInputs : DecodeBegin(h, a[1], a[2], a[3])
    \/ DecodeEnd
    \/ \E h \in Ptr : RaceDestroyEncoder(h)
    \/ \E h \in Ptr : RaceDestroyDecoder(h)

SpecConc == Init /\ [][NextConc]_vars

(***************************************************************************)
(* Properties.                                                             *)
(***************************************************************************)
Creates == {"createEncoder", "createDecoder"}
Destroys == {"destroyEncoder", "destroyDecoder"}
Returned == last.outcome = "returned"
Tuned(st) ==
    st.vbr = 1 /\ st.complexity = 10 /\ st.signal = OPUS_SIGNAL_VOICE

\* C1: destroy is idempotent: a destroy call on a handle whose state an
\* earlier destroy already released invokes no native release routine (the
\* release routine runs at most once per codec instance), returns normally
\* and leaves the number of live instances as it was.
C1_DestroyIdempotent ==
    (last.op \in Destroys /\ last.wasStale /\ last.kind = "free")
        => /\ last.calls = <<>>
           /\ Returned
           /\ Cardinality(LiveSet) = last.liveBefore

\* C2: encode and decode given a handle that is zero, was never created or
\* was already destroyed return a negative value and never run the native
\* codec on that handle.
C2_InvalidHandleRejected ==
    (last.op \in {"encode", "decode"} /\ last.kind = "free")
        => /\ last.calls = <<>>
           /\ Returned
           /\ last.ret < 0

\* C3: setBitrate given an invalid handle (zero, never created or already
\* destroyed) issues no native control call and returns normally.
C3_SetBitrateInvalidIgnored ==
    (last.op = "setBitrate" /\ last.kind = "free")
        => /\ last.calls = <<>>
           /\ Returned

\* C4: createEncoder / createDecoder return 0 exactly when the native
\* initialisation failed, and then the live instances are those from before
\* the call; on success the handle is non-zero and refers to one new live
\* instance of the requested kind.  The value 0 is never a live handle.
C4_CreateSentinel ==
    /\ ~Live(NULL)
    /\ (last.op \in Creates /\ Returned)
        => /\ (last.ret = 0) <=> (last.nret # OPUS_OK)
           /\ last.ret = 0 => Cardinality(LiveSet) = last.liveBefore
           /\ last.ret # 0 =>
                /\ Cardinality(LiveSet) = last.liveBefore + 1
                /\ heap[last.ret].kind =
                     (IF last.op = "createEncoder" THEN "enc" ELSE "dec")

\* a createEncoder that failed in the library and returned the sentinel
C4_Witness ==
    /\ last.op = "createEncoder" /\ Returned
    /\ last.nret = OPUS_ALLOC_FAIL /\ last.ret = 0
    /\ last.liveBefore = 1

\* C5: a destroyed handle value is never reused: no create call returns a
\* value that an earlier destroy released.
C5_NoHandleReuse ==
    (last.op \in Creates /\ last.ret # 0) => ~last.wasStale

\* C6: an operation given a live handle of the other kind invokes no native
\* routine on it and reports failure.
C6_WrongKindRejected ==
    (\/ last.op \in {"decode", "destroyDecoder"} /\ last.kind = "enc"
     \/ last.op \in {"encode", "setBitrate", "destroyEncoder"} /\ last.kind = "dec")
        => /\ last.calls = <<>>
           /\ Returned
           /\ last.op \in {"encode", "decode"} => last.ret < 0

\* C7: every encoder a caller can hold has VBR on, complexity 10 and the
\* voice signal hint; a createEncoder that returns a handle has issued the
\* three ctl requests before returning, and one that fails has issued none.
C7_DefaultTuningApplied ==
    /\ \A p \in Ptr : heap[p].kind = "enc" => Tuned(heap[p])
    /\ (last.op = "createEncoder" /\ Returned)
        => /\ last.ret # 0 => /\ Tuned(heap[last.ret])
                              /\ Len(last.calls) = 4
           /\ last.ret = 0 => last.calls = <<"opus_encoder_create">>

\* a createEncoder that succeeded while another instance was live
C7_Witness ==
    /\ last.op = "createEncoder" /\ Returned /\ last.ret # 0
    /\ Len(last.calls) = 4 /\ last.liveBefore = 1

\* C8: encode returns a negative value exactly when opus_encode reported a
\* failure, and otherwise the number of bytes opus_encode wrote; on a live
\* encoder that number never exceeds the length of the caller's byte array.
C8_EncodeReturn ==
    (last.op = "encode" /\ Returned)
        => /\ (last.ret < 0) <=> (last.nret < 0)
           /\ last.nret >= 0 => last.ret = last.nret
           /\ (last.kind = "enc" /\ last.ret >= 0) => last.ret <= last.opusLen

\* an encode on a live encoder that the codec rejected
C8_Witness ==
    /\ last.op = "encode" /\ Returned /\ last.kind = "enc"
    /\ last.nret = OPUS_BUFFER_TOO_SMALL /\ last.ret < 0

\* The case C9 is about: decode of an empty packet on a live decoder, with
\* decode's own preconditions met (frameSize a whole number of 2.5 ms units,
\* pcm capacity at least frameSize * channels).
ConcealmentCall ==
    /\ last.op = "decode" /\ last.kind = "dec" /\ last.opusLen = 0
    /\ last.frameSize % (last.Fs \div 400) = 0
    /\ last.pcmLen >= last.frameSize * last.nch

\* C9 as stated: the concealment call returns frameSize * channels.
C9_ConcealmentReturnsAllSamples ==
    ConcealmentCall
        => /\ Returned
           /\ last.ret = last.frameSize * last.nch
           /\ heap[last.h].kind = "dec"

\* C9 amended: the concealment call succeeds and returns frameSize, the
\* count per channel (so frameSize * channels samples are in pcm), and
\* the decoder stays live.
C9_ConcealmentReturnsFrameSize ==
    ConcealmentCall
        => /\ Returned
           /\ last.ret = last.frameSize
           /\ heap[last.h].kind = "dec"

\* concealment on a stereo decoder
C9_Witness ==
    /\ ConcealmentCall /\ last.nch = 2 /\ last.frameSize = 160
    /\ last.ret = 160

\* C10: as long as every call is within contract (each handle destroyed once,
\* by the destroy of its kind), the live native instances are exactly the
\* handles created and not yet destroyed: when all have been destroyed, none
\* is live.
C10_NoLeak ==
    (~misuse /\ Returned) => LiveSet = outstanding

\* create, create, destroy, destroy has run and nothing is live
C10_Witness ==
    /\ ~misuse /\ Returned /\ last.op = "destroyDecoder" /\ last.kind = "dec"
    /\ Cardinality(stale) = 2 /\ outstanding = {} /\ LiveSet = {}

\* The last call was given a live handle of the kind the operation is for.
ValidHandleCall ==
    \/ last.op \in {"encode", "setBitrate", "destroyEncoder"} /\ last.kind = "enc"
    \/ last.op \in {"decode", "destroyDecoder"} /\ last.kind = "dec"

\* C11: an encode, decode, setBitrate or destroy on a valid handle leaves
\* the native state (kind, rate, channels, tuning, bitrate) and the liveness
\* of every other handle exactly as it was when the call began.
C11_Isolation ==
    ValidHandleCall => \A p \in Ptr \ {last.h} : heap[p] = last.others[p]

\* setBitrate on one of two live encoders: only its bitrate moved
C11_Witness ==
    /\ last.op = "setBitrate" /\ last.kind = "enc" /\ Returned
    /\ heap[last.h].bitrate = 16000
    /\ \E p \in Ptr \ {last.h} :
         heap[p].kind = "enc" /\ heap[p].bitrate = OPUS_AUTO

\* C12: no destroy releases native state while an encode or decode on the
\* same handle is in flight: whenever the audio thread is inside the native
\* routine on a state that was live when it entered, that state is still
\* there.
C12_NoReleaseWhileInFlight ==
    (Running /\ last.kind # "free") => heap[last.h].kind = last.kind

\* C13: encode with a pcm array whose length differs from frameSize *
\* channels is rejected and opus_encode is never invoked for that call.
C13_PcmLengthChecked ==
    (/\ last.op = "encode" /\ last.kind = "enc"
     /\ last.pcmLen # last.frameSize * last.nch)
        => /\ last.calls = <<>>
           /\ Returned
           /\ last.ret < 0

\* C14: decode invokes opus_decode only when the pcm array holds at least
\* frameSize * channels samples, and opus_decode never writes more samples
\* than the array holds.
C14_PcmCapacityChecked ==
    (last.op = "decode" /\ last.kind = "dec")
        => /\ last.calls # <<>> => last.pcmLen >= last.frameSize * last.nch
           /\ last.nret > 0 => last.nret * last.nch <= last.pcmLen

\* The supported bitrates of the codec, in bits per second.
SupportedBitrate(b, channels) == b >= 500 /\ b <= 300000 * channels

\* C15: setBitrate with a positive bitrate outside the supported range
\* leaves the encoder's bitrate unchanged, and the bitrate after any
\* setBitrate is the previous one or the requested one, never a third,
\* clamped value.
C15_NoSilentClamp ==
    [][(last'.op = "setBitrate" /\ last'.kind = "enc")
          => /\ heap'[last'.h].bitrate
                  \in {heap[last'.h].bitrate, last'.bitrate}
             /\ (last'.bitrate > 0
                   /\ ~SupportedBitrate(last'.bitrate, last'.nch))
                  => heap'[last'.h].bitrate = heap[last'.h].bitrate]_vars

\* How many times buffer b occurs in the sequence s.
Count(b, s) == Cardinality({i \in 1..Len(s) : s[i] = b})

\* The Java arrays the last call obtained and has not handed back.
Held == {b \in {"pcm", "opus"} : Count(b, last.acquired) > Count(b, last.released)}

\* C16: when encode or decode returns, on success and on native failure
\* alike, each of its two Java arrays has been acquired once and released
\* exactly once, and none is still held.
C16_BuffersReleasedOnce ==
    (last.op \in {"encode", "decode"} /\ Returned)
        => /\ Len(last.acquired) = 2
           /\ \A b \in {"pcm", "opus"} :
                Count(b, last.acquired) = 1 /\ Count(b, last.released) = 1
           /\ Held = {}

\* An encode whose opus_encode failed has returned with both arrays released.
C16_Witness ==
    /\ last.op = "encode" /\ last.kind = "enc" /\ Returned
    /\ last.nret < 0 /\ last.ret < 0
    /\ last.acquired = <<"pcm", "opus">>
    /\ last.released = <<"pcm", "opus">>

\* The native routine an entry point steps the codec with.
StepRoutine(op) == IF op = "encode" THEN "opus_encode" ELSE "opus_decode"

\* C17: an encode or decode call on a valid handle invokes opus_encode /
\* opus_decode exactly once, whether the routine succeeds or fails: one
\* call is one step of the codec, with no retry.
C17_OneStepPerCall ==
    (/\ last.op \in {"encode", "decode"}
     /\ ValidHandleCall)
        => /\ Count(StepRoutine(last.op), last.calls) = 1
           /\ Len(last.calls) = 1

\* An encode on a live encoder whose single opus_encode failed, and the
\* failure was returned at once.
C17_Witness ==
    /\ last.op = "encode" /\ last.kind = "enc" /\ Returned
    /\ last.nret = OPUS_BUFFER_TOO_SMALL
    /\ last.ret = last.nret
    /\ last.calls = <<"opus_encode">>

====
